---- MODULE Spec2Model ----
(***************************************************************************)
(* Model of ai_lead_generation_agent.py: the lead-generation pipeline      *)
(*   search_for_urls -> extract_user_info_from_urls ->                     *)
(*   format_user_info_to_flattened_json -> save_to_csv ->                  *)
(*   write_to_google_sheets                                                *)
(* as it is driven by the "Generate Leads" handler of main().              *)
(*                                                                         *)
(* Every function of the source is an operator that takes, next to its     *)
(* arguments, what its collaborator answered, and yields either            *)
(* Return(value) or Raise(exception): Python exceptions the function does  *)
(* not catch leave it.  main() is a state machine with one step per        *)
(* blocking call.                                                          *)
(*                                                                         *)
(* JSON values coming from the collaborators are tagged records            *)
(* (Num, Str, List, None); a JSON object is a record that holds exactly    *)
(* the keys that are present.  Python str values the program builds        *)
(* itself (URLs, the joined links, file names) are plain strings.          *)
(***************************************************************************)
EXTENDS Integers, Sequences, FiniteSets

VARIABLES
    pc,                 \* position in main(): form, search, extract, format, csv, sheets, done, raised
    firecrawl_api_key,  \* sidebar inputs (line 108-111) and the text area (line 117)
    openai_api_key,
    composio_api_key,
    num_links,
    user_query,
    urls,               \* locals of main(), line 130-158
    extracted_data,
    flattened_data,
    csv_filename,
    google_sheets_link,
    calls,              \* the pipeline functions main() has invoked, in order
    ui,                 \* the status messages shown (st.error, st.warning, st.success)
    exc,                \* the exception that left main(), if any
    search_response,    \* what each collaborator answered in this run
    extract_responses,
    csv_io,
    sheets_io

vars == <<pc, firecrawl_api_key, openai_api_key, composio_api_key, num_links,
          user_query, urls, extracted_data, flattened_data, csv_filename,
          google_sheets_link, calls, ui, exc, search_response,
          extract_responses, csv_io, sheets_io>>

---------------------------------------------------------------------------
(* Bounds of the model *)

\* the widest "Number of links to search" tried (the widget allows 1..10)
MaxLinks == 2
\* the most results a search response holds, and so the most URLs of a run
MaxResults == 2
\* the most interactions one extraction response holds
MaxRecs == 2

---------------------------------------------------------------------------
(* Python values *)

None == [t |-> "null"]
Num(n) == [t |-> "int", v |-> n]
Str(s) == [t |-> "str", v |-> s]
List(l) == [t |-> "list", v |-> l]

Return(v) == [raised |-> FALSE, value |-> v]
Raise(e) == [raised |-> TRUE, exc |-> e]

\* d.get(k, default) on a JSON object
dict_get(d, k, default) == IF k \in DOMAIN d THEN d[k] ELSE default

\* All sequences over S of length at most n
SeqUpTo(S, n) == UNION {[1..k -> S] : k \in 0..n}

\* The contiguous windows of sequence s of length at most n
Windows(s, n) ==
    {w \in {SubSeq(s, i, j) : i \in 1..Len(s), j \in 0..Len(s)} : Len(w) <= n}

---------------------------------------------------------------------------
(* search_for_urls, line 27-36 *)

URLS == {"quora.com/a", "quora.com/b"}

\* One entry of the search response's data: with a url, or without one
SearchEntries == {[url |-> u] : u \in URLS} \cup {[title |-> "no url"]}

\* The JSON bodies of a search response: success and data may be absent
SearchBodies ==
    LET datas == SeqUpTo(SearchEntries, MaxResults) IN
    {[error |-> "rate limited"]}
        \cup {[success |-> s] : s \in BOOLEAN}
        \cup {[data |-> d] : d \in datas}
        \cup {[success |-> s, data |-> d] : s \in BOOLEAN, d \in datas}

\* What requests.post may do: raise, or answer with a status and a body
\* that is JSON (json present) or not
SearchResponses ==
    {[kind |-> "transport_error"]}
        \cup {[kind |-> "http", status_code |-> c] : c \in {200, 500}}
        \cup {[kind |-> "http", status_code |-> c, json |-> b] :
                c \in {200, 500}, b \in SearchBodies}

\* response.json(), line 34-35
response_json(response) ==
    IF "json" \in DOMAIN response THEN Return(response.json)
    ELSE Raise("JSONDecodeError")

\* [result["url"] for result in data], line 35
result_urls(data) ==
    IF \E i \in 1..Len(data) : "url" \notin DOMAIN data[i]
    THEN Raise("KeyError")
    ELSE Return([i \in 1..Len(data) |-> data[i].url])

\* line 27-36.  num_links only travels in the request payload (line 31)
search_for_urls(company_description, num_links_arg, response) ==
    IF response.kind = "transport_error" THEN Raise("RequestException")
    ELSE IF response.status_code = 200
         THEN LET body == response_json(response) IN
              IF body.raised THEN body
              ELSE IF dict_get(body.value, "success", FALSE)
                   THEN result_urls(dict_get(body.value, "data", <<>>))
                   ELSE Return(<<>>)
         ELSE Return(<<>>)

---------------------------------------------------------------------------
(* extract_user_info_from_urls, line 39-52 *)

\* The interactions an extraction may report.  Keys may be absent, upvotes
\* may be any JSON value, links may be a list, a string or null.
InteractionSamples ==
    << [username |-> Str("ann"), bio |-> Str("founder"), post_type |-> Str("answer"),
        timestamp |-> Str("2y ago"), upvotes |-> Num(3),
        links |-> List(<<Str("x.io"), Str("y.io")>>)],
       [username |-> Str("bob")],
       [username |-> Str("fay"), upvotes |-> Num(7), links |-> None],
       [username |-> Str("cy"), upvotes |-> Str("12"), links |-> List(<<>>)],
       [username |-> Str("dee"), upvotes |-> None, links |-> List(<<Str("z.io")>>)],
       [username |-> Str("eve"), upvotes |-> Num(-1)],
       [username |-> Str("gus"), links |-> Str("x.io")],
       [username |-> Str("hal"), links |-> Str("")] >>

\* The interaction lists of the whole-run specification: windows of the
\* first three samples
RunInteractionLists == Windows(SubSeq(InteractionSamples, 1, 3), MaxRecs)

\* The interaction lists the flattener is tried on: windows of all samples
InteractionLists == Windows(InteractionSamples, MaxRecs)

\* firecrawl_app.extract either raises or answers with a JSON object
ExtractError == [kind |-> "error"]
ExtractAnswer(body) == [kind |-> "answer", body |-> body]

\* The answers of the whole-run specification
RunExtractResponses ==
    {ExtractError,
     ExtractAnswer([success |-> FALSE, status |-> "failed"]),
     ExtractAnswer([success |-> TRUE, status |-> "processing"])}
        \cup {ExtractAnswer([success |-> TRUE, status |-> "completed",
                             data |-> [interactions |-> List(l)]]) :
                l \in RunInteractionLists}

\* The answers that lead to the extracted_data the flattener is tried on:
\* failed, or completed with interactions null, a string or a list
FlattenExtractResponses ==
    {ExtractAnswer([success |-> FALSE, status |-> "failed"]),
     ExtractAnswer([success |-> TRUE, status |-> "completed",
                    data |-> [interactions |-> None]]),
     ExtractAnswer([success |-> TRUE, status |-> "completed",
                    data |-> [interactions |-> Str("")]]),
     ExtractAnswer([success |-> TRUE, status |-> "completed",
                    data |-> [interactions |-> Str("abc")]])}
        \cup {ExtractAnswer([success |-> TRUE, status |-> "completed",
                             data |-> [interactions |-> List(l)]]) :
                l \in InteractionLists}

\* The answers extract_user_info_from_urls is tried on: every combination
\* of success and status, each possibly absent, and for the status
\* "completed" every shape of data
ExtractBodies ==
    LET datas == {None, [interactions |-> None], [source |-> "quora"],
                  [interactions |-> List(SubSeq(InteractionSamples, 1, MaxRecs))]}
        stats == {"completed", "processing", "failed"}
    IN  {[id |-> "job"]}
        \cup {[success |-> s] : s \in BOOLEAN}
        \cup {[status |-> st] : st \in stats}
        \cup {[success |-> s, status |-> st] : s \in BOOLEAN, st \in stats}
        \cup {[success |-> s, status |-> "completed", data |-> d] :
                s \in BOOLEAN, d \in datas}

ExtractResponses == {ExtractError} \cup {ExtractAnswer(b) : b \in ExtractBodies}

\* A variant of line 49 that forgets the status
accepted_success_only(body) == dict_get(body, "success", FALSE)

\* line 49: response.get('success') and response.get('status') == 'completed'
accepted(body) ==
    /\ dict_get(body, "success", FALSE)
    /\ dict_get(body, "status", "") = "completed"

\* response.get('data', {}).get('interactions', []), line 50
EmptyDict == [k \in {} |-> None]

user_info_of(body) ==
    LET data == dict_get(body, "data", EmptyDict) IN
    IF "t" \in DOMAIN data
    THEN Raise("AttributeError")
    ELSE Return(dict_get(data, "interactions", List(<<>>)))

\* A variant of line 50 that puts the new entry in front
extract_one_prepend(url, response, extracted) ==
    IF response.kind = "error" THEN Raise("FirecrawlError")
    ELSE IF accepted(response.body)
         THEN LET info == user_info_of(response.body) IN
              IF info.raised THEN info
              ELSE Return(<<[website_url |-> url, user_info |-> info.value]>>
                          \o extracted)
         ELSE Return(extracted)

\* The body of the loop, line 44-50: what one URL adds to extracted_data
extract_one(url, response, extracted) ==
    IF response.kind = "error" THEN Raise("FirecrawlError")
    ELSE IF accepted(response.body)
         THEN LET info == user_info_of(response.body) IN
              IF info.raised THEN info
              ELSE Return(Append(extracted,
                                 [website_url |-> url, user_info |-> info.value]))
         ELSE Return(extracted)

\* for url in urls, line 43
RECURSIVE extract_loop(_, _, _, _)
extract_loop(url_list, responses, i, extracted) ==
    IF i > Len(url_list) THEN Return(extracted)
    ELSE LET step == extract_one(url_list[i], responses[i], extracted) IN
         IF step.raised THEN step
         ELSE extract_loop(url_list, responses, i + 1, step.value)

\* line 39-52; responses[i] is the answer to the call made for urls[i]
extract_user_info_from_urls(url_list, responses) ==
    extract_loop(url_list, responses, 1, <<>>)

\* The number of extraction calls made: up to the first one that ends the loop
RECURSIVE extract_calls(_, _, _)
extract_calls(url_list, responses, i) ==
    IF i > Len(url_list) THEN Len(url_list)
    ELSE IF extract_one(url_list[i], responses[i], <<>>).raised THEN i
         ELSE extract_calls(url_list, responses, i + 1)

---------------------------------------------------------------------------
(* format_user_info_to_flattened_json, line 55-69 *)

\* The characters of the strings the model iterates over
Chars(string) ==
    CASE string = "" -> <<>>
      [] string = "x.io" -> <<"x", ".", "i", "o">>
      [] string = "abc" -> <<"a", "b", "c">>

\* What a for loop or join sees of a JSON value: the items of a list, the
\* characters of a string; a number and None are not iterable
py_iter(value) ==
    IF value.t = "list" THEN Return(value.v)
    ELSE IF value.t = "str"
         THEN Return([i \in 1..Len(Chars(value.v)) |-> Str(Chars(value.v)[i])])
         ELSE Raise("TypeError")

\* A Python str, as opposed to a dict, a list, a number or None
is_str(value) == "t" \in DOMAIN value /\ value.t = "str"

\* sep.join of a sequence of str, line 67
RECURSIVE join(_, _)
join(sep, strings) ==
    IF strings = <<>> THEN ""
    ELSE IF Len(strings) = 1 THEN strings[1]
         ELSE strings[1] \o sep \o join(sep, Tail(strings))

\* ", ".join(interaction.get("links", [])), line 67: join takes any
\* iterable whose items are all str
joined_links(interaction) ==
    LET items == py_iter(dict_get(interaction, "links", List(<<>>))) IN
    IF items.raised THEN items
    ELSE IF \E i \in 1..Len(items.value) : ~is_str(items.value[i])
         THEN Raise("TypeError")
         ELSE Return(join(", ", [i \in 1..Len(items.value) |-> items.value[i].v]))

\* The row of one interaction, line 60-68; only a dict has get
flat_row(website_url, interaction) ==
    IF "t" \in DOMAIN interaction THEN Raise("AttributeError")
    ELSE LET links == joined_links(interaction) IN
         IF links.raised THEN links
         ELSE Return([Website_URL |-> website_url,
                      Username    |-> dict_get(interaction, "username", Str("")),
                      Bio         |-> dict_get(interaction, "bio", Str("")),
                      Post_Type   |-> dict_get(interaction, "post_type", Str("")),
                      Timestamp   |-> dict_get(interaction, "timestamp", Str("")),
                      Upvotes     |-> dict_get(interaction, "upvotes", Num(0)),
                      Links       |-> links.value])

\* A variant of line 59-68 that writes a row with no user for a source
\* without interactions
RECURSIVE interaction_loop_placeholder(_, _, _, _)
interaction_loop_placeholder(website_url, user_info, j, flattened) ==
    IF user_info = <<>>
    THEN Return(Append(flattened, flat_row(website_url, [note |-> Str("none")]).value))
    ELSE IF j > Len(user_info) THEN Return(flattened)
         ELSE LET row == flat_row(website_url, user_info[j]) IN
              IF row.raised THEN row
              ELSE interaction_loop_placeholder(website_url, user_info, j + 1,
                                                Append(flattened, row.value))

\* for interaction in data["user_info"], line 59-68
RECURSIVE interaction_loop(_, _, _, _)
interaction_loop(website_url, user_info, j, flattened) ==
    IF j > Len(user_info) THEN Return(flattened)
    ELSE LET row == flat_row(website_url, user_info[j]) IN
         IF row.raised THEN row
         ELSE interaction_loop(website_url, user_info, j + 1,
                               Append(flattened, row.value))

\* for data in extracted_data, line 57-68
RECURSIVE source_loop(_, _, _)
source_loop(extracted, k, flattened) ==
    IF k > Len(extracted) THEN Return(flattened)
    ELSE LET data == extracted[k]
             items == py_iter(data.user_info)
         IN  IF items.raised THEN items
             ELSE LET rows == interaction_loop(data.website_url, items.value,
                                               1, flattened) IN
                  IF rows.raised THEN rows
                  ELSE source_loop(extracted, k + 1, rows.value)

\* line 55-69
format_user_info_to_flattened_json(extracted) == source_loop(extracted, 1, <<>>)

---------------------------------------------------------------------------
(* save_to_csv, line 72-76, and write_to_google_sheets, line 79-98 *)

\* df.to_csv raises, or it returns and the file can then be opened for the
\* download button (line 152), or it returns and the file cannot be opened
CsvIO == {"written", "to_csv_error", "open_error"}

\* line 72-76
save_to_csv(flattened, io) ==
    IF io = "to_csv_error" THEN Raise("OSError") ELSE Return("quora_leads.csv")

\* open(csv_filename, "rb"), line 152
open_rb(filename, io) ==
    IF io = "open_error" THEN Raise("FileNotFoundError") ELSE Return(filename)

\* A text of the agent is a sequence of chunks, so that `in` and strip()
\* have something to work on
SheetsMarker == "https://docs.google.com/spreadsheets/d/"
Text(chunks) == [t |-> "str", v |-> chunks]

\* response.content of google_sheets_agent.run
AgentContents ==
    {None, Text(<<>>), Text(<<" ">>),
     Text(<<"I could not create the sheet.">>),
     Text(<<"https://docs.google.com/document/d/", "abc">>),
     Text(<<SheetsMarker, "abc">>),
     Text(<<" ", "Created:", " ", SheetsMarker, "abc", " ">>)}

\* Setting up the toolset and the agent (line 80-87) may raise, the run
\* (line 93) may raise, or the run answers
SheetsIO ==
    {[kind |-> "setup_error"], [kind |-> "run_error"]}
        \cup {[kind |-> "answer", content |-> c] : c \in AgentContents}

\* str.strip(): the text without its leading and trailing whitespace
RECURSIVE lstrip(_)
lstrip(chunks) ==
    IF chunks # <<>> /\ Head(chunks) = " " THEN lstrip(Tail(chunks)) ELSE chunks

RECURSIVE rstrip(_)
rstrip(chunks) ==
    IF chunks # <<>> /\ chunks[Len(chunks)] = " "
    THEN rstrip(SubSeq(chunks, 1, Len(chunks) - 1))
    ELSE chunks

strip(text) == Text(rstrip(lstrip(text.v)))

\* A variant of line 94 that takes any Google Docs link for the marker
contains_any_docs_link(content) ==
    IF content.t # "str" THEN Raise("TypeError")
    ELSE Return(\E i \in 1..Len(content.v) :
                    content.v[i] \in {SheetsMarker, "https://docs.google.com/document/d/"})

\* "https://docs.google.com/spreadsheets/d/" in response.content, line 94;
\* `in` raises a TypeError on None
contains_marker(content) ==
    IF content.t # "str" THEN Raise("TypeError")
    ELSE Return(\E i \in 1..Len(content.v) : content.v[i] = SheetsMarker)

\* line 79-98
write_to_google_sheets(flattened, io) ==
    IF io.kind = "setup_error" THEN Raise("ComposioError")
    ELSE IF io.kind = "run_error" THEN Return(None)
         ELSE LET found == contains_marker(io.content) IN
              IF found.raised THEN Return(None)
              ELSE IF found.value THEN Return(strip(io.content))
                   ELSE Return(None)

---------------------------------------------------------------------------
(* main(), line 101-167 *)

MsgMissingInput == "Please enter all API keys and a search query."
MsgNoLinks      == "No relevant Quora links found."
MsgSaved        == "Data saved successfully!"
MsgUploaded     == "Lead data successfully uploaded to Google Sheets!"
\* line 165; the source's text starts with a cross mark (U+274C) and a
\* space, which a string of this module cannot hold
MsgSheetFailed  == "Failed to create Google Sheet."

NoExc == [in |-> "", type |-> ""]
NoResponse == [kind |-> "none"]

\* What the user may have typed into a text field
TextInputs == {"", "typed"}

\* all([...]), line 122: every text is non-empty
all_present(texts) == \A i \in 1..Len(texts) : texts[i] # ""

\* line 126
transformed_query(query) == "Find Quora discussions about " \o query

\* A variant of line 132 that goes on whatever the search returned
has_urls_always(url_list) == TRUE

\* if urls:, line 132
has_urls(url_list) == url_list # <<>>

\* if google_sheets_link:, line 160
link_truthy(link) == link.t = "str" /\ link.v # <<>>

\* The script has run down to the button: nothing of a run exists yet
Fresh ==
    /\ pc = "form"
    /\ urls = <<>>
    /\ extracted_data = <<>>
    /\ flattened_data = <<>>
    /\ csv_filename = ""
    /\ google_sheets_link = None
    /\ calls = <<>>
    /\ ui = <<>>
    /\ exc = NoExc
    /\ search_response = NoResponse
    /\ extract_responses = <<>>
    /\ csv_io = ""
    /\ sheets_io = NoResponse

Init ==
    /\ firecrawl_api_key \in TextInputs
    /\ openai_api_key \in TextInputs
    /\ composio_api_key \in TextInputs
    /\ user_query \in TextInputs
    /\ num_links \in 1..MaxLinks
    /\ Fresh

inputs == <<firecrawl_api_key, openai_api_key, composio_api_key, num_links, user_query>>

\* An exception leaves main(): Streamlit ends the script run
Uncaught(fn, result) ==
    /\ pc' = "raised"
    /\ exc' = [in |-> fn, type |-> result.exc]

\* if st.button("Generate Leads"), line 121-127
Generate ==
    /\ pc = "form"
    /\ IF all_present(<<firecrawl_api_key, openai_api_key, composio_api_key, user_query>>)
       THEN /\ pc' = "search"
            /\ ui' = ui
       ELSE /\ pc' = "done"
            /\ ui' = Append(ui, MsgMissingInput)
    /\ UNCHANGED <<inputs, urls, extracted_data, flattened_data, csv_filename,
                   google_sheets_link, calls, exc, search_response,
                   extract_responses, csv_io, sheets_io>>

\* line 129-135 and 166-167
Search ==
    /\ pc = "search"
    /\ \E response \in SearchResponses :
         LET result == search_for_urls(transformed_query(user_query), num_links, response) IN
         /\ search_response' = response
         /\ calls' = Append(calls, "search_for_urls")
         /\ IF result.raised
            THEN /\ Uncaught("search_for_urls", result)
                 /\ UNCHANGED <<urls, ui>>
            ELSE /\ urls' = result.value
                 /\ exc' = exc
                 /\ IF has_urls(result.value)
                    THEN /\ pc' = "extract"
                         /\ ui' = ui
                    ELSE /\ pc' = "done"
                         /\ ui' = Append(ui, MsgNoLinks)
    /\ UNCHANGED <<inputs, extracted_data, flattened_data, csv_filename,
                   google_sheets_link, extract_responses, csv_io, sheets_io>>

\* line 137-138, the extraction collaborator answering with `responses`
ExtractWith(responses) ==
    LET result == extract_user_info_from_urls(urls, responses) IN
    /\ pc = "extract"
    /\ extract_responses' = SubSeq(responses, 1, extract_calls(urls, responses, 1))
    /\ calls' = Append(calls, "extract_user_info_from_urls")
    /\ IF result.raised
       THEN /\ Uncaught("extract_user_info_from_urls", result)
            /\ UNCHANGED extracted_data
       ELSE /\ extracted_data' = result.value
            /\ pc' = "format"
            /\ exc' = exc
    /\ UNCHANGED <<inputs, urls, flattened_data, csv_filename, google_sheets_link,
                   ui, search_response, csv_io, sheets_io>>

Extract == \E responses \in [1..Len(urls) -> RunExtractResponses] : ExtractWith(responses)

\* line 140-141
Format ==
    LET result == format_user_info_to_flattened_json(extracted_data) IN
    /\ pc = "format"
    /\ calls' = Append(calls, "format_user_info_to_flattened_json")
    /\ IF result.raised
       THEN /\ Uncaught("format_user_info_to_flattened_json", result)
            /\ UNCHANGED flattened_data
       ELSE /\ flattened_data' = result.value
            /\ pc' = "csv"
            /\ exc' = exc
    /\ UNCHANGED <<inputs, urls, extracted_data, csv_filename, google_sheets_link,
                   ui, search_response, extract_responses, csv_io, sheets_io>>

\* line 143-155
SaveCsv ==
    /\ pc = "csv"
    /\ \E io \in CsvIO :
         LET result == save_to_csv(flattened_data, io) IN
         /\ csv_io' = io
         /\ calls' = Append(calls, "save_to_csv")
         /\ IF result.raised
            THEN /\ Uncaught("save_to_csv", result)
                 /\ UNCHANGED <<csv_filename, ui>>
            ELSE /\ csv_filename' = result.value
                 /\ ui' = Append(ui, MsgSaved)
                 /\ LET file == open_rb(result.value, io) IN
                    IF file.raised
                    THEN Uncaught("open", file)
                    ELSE /\ pc' = "sheets"
                         /\ exc' = exc
    /\ UNCHANGED <<inputs, urls, extracted_data, flattened_data, google_sheets_link,
                   search_response, extract_responses, sheets_io>>

\* line 157-165
Sheets ==
    /\ pc = "sheets"
    /\ \E io \in SheetsIO :
         LET result == write_to_google_sheets(flattened_data, io) IN
         /\ sheets_io' = io
         /\ calls' = Append(calls, "write_to_google_sheets")
         /\ IF result.raised
            THEN /\ Uncaught("write_to_google_sheets", result)
                 /\ UNCHANGED <<google_sheets_link, ui>>
            ELSE /\ google_sheets_link' = result.value
                 /\ ui' = Append(ui, IF link_truthy(result.value)
                                     THEN MsgUploaded ELSE MsgSheetFailed)
                 /\ pc' = "done"
                 /\ exc' = exc
    /\ UNCHANGED <<inputs, urls, extracted_data, flattened_data, csv_filename,
                   search_response, extract_responses, csv_io>>

\* The next interaction reruns the script: the locals of the last run are
\* gone and the widgets hold what the user typed since
Rerun ==
    /\ pc \in {"done", "raised"}
    /\ firecrawl_api_key' \in TextInputs
    /\ openai_api_key' \in TextInputs
    /\ composio_api_key' \in TextInputs
    /\ user_query' \in TextInputs
    /\ num_links' \in 1..MaxLinks
    /\ pc' = "form"
    /\ urls' = <<>>
    /\ extracted_data' = <<>>
    /\ flattened_data' = <<>>
    /\ csv_filename' = ""
    /\ google_sheets_link' = None
    /\ calls' = <<>>
    /\ ui' = <<>>
    /\ exc' = NoExc
    /\ search_response' = NoResponse
    /\ extract_responses' = <<>>
    /\ csv_io' = ""
    /\ sheets_io' = NoResponse

Next == Generate \/ Search \/ Extract \/ Format \/ SaveCsv \/ Sheets \/ Rerun

Spec == Init /\ [][Next]_vars

---------------------------------------------------------------------------
(* The functions on their own, from states main() reaches before calling them *)

\* The search response that made search_for_urls return url_list
found(url_list) ==
    [kind |-> "http", status_code |-> 200,
     json |-> [success |-> TRUE,
               data |-> [i \in 1..Len(url_list) |-> [url |-> url_list[i]]]]]

\* main() at line 137: the search has returned a non-empty url_list
BeforeExtract(url_list) ==
    /\ firecrawl_api_key = "typed"
    /\ openai_api_key = "typed"
    /\ composio_api_key = "typed"
    /\ user_query = "typed"
    /\ num_links = MaxLinks
    /\ urls = url_list
    /\ search_response = found(url_list)
    /\ flattened_data = <<>>
    /\ csv_filename = ""
    /\ google_sheets_link = None
    /\ ui = <<>>
    /\ exc = NoExc
    /\ csv_io = ""
    /\ sheets_io = NoResponse

InitExtract ==
    \E url_list \in SeqUpTo(URLS, MaxResults) \ {<<>>} :
        /\ BeforeExtract(url_list)
        /\ pc = "extract"
        /\ extracted_data = <<>>
        /\ extract_responses = <<>>
        /\ calls = <<"search_for_urls">>

\* extract_user_info_from_urls on every answer of the collaborator
ExtractAny == \E responses \in [1..Len(urls) -> ExtractResponses] : ExtractWith(responses)

SpecExtract == InitExtract /\ [][ExtractAny]_vars

\* main() at line 140: the extraction has returned
InitFlatten ==
    \E url_list \in SeqUpTo(URLS, MaxResults) \ {<<>>} :
      \E responses \in [1..Len(url_list) -> FlattenExtractResponses] :
        /\ BeforeExtract(url_list)
        /\ pc = "format"
        /\ extracted_data = extract_user_info_from_urls(url_list, responses).value
        /\ extract_responses = responses
        /\ calls = <<"search_for_urls", "extract_user_info_from_urls">>

SpecFlatten == InitFlatten /\ [][Format]_vars

---------------------------------------------------------------------------
(* Properties *)

Called(fn) == \E i \in 1..Len(calls) : calls[i] = fn
Returned(fn) == Called(fn) /\ exc.in # fn

\* An extraction answer with a true success flag and status "completed"
Completed(response) ==
    /\ response.kind = "answer"
    /\ "success" \in DOMAIN response.body
    /\ response.body.success = TRUE
    /\ "status" \in DOMAIN response.body
    /\ response.body.status = "completed"

\* The URLs in the data of the search response, in its order
Discovered == [i \in 1..Len(search_response.json.data) |->
                  search_response.json.data[i].url]

\* C1: extract_user_info_from_urls always returns normally and asks the
\* collaborator about every URL, whatever the collaborator does for each.
C1_ExtractorNeverRaises ==
    Called("extract_user_info_from_urls") =>
        /\ exc.in # "extract_user_info_from_urls"
        /\ Len(extract_responses) = Len(urls)

\* C2: the result of extract_user_info_from_urls holds, in input order, one
\* entry for each URL whose answer has success true and status "completed",
\* and no entry for any other URL.
C2_ExtractedAreTheCompleted ==
    Returned("extract_user_info_from_urls") =>
        LET done == {i \in 1..Len(urls) : Completed(extract_responses[i])} IN
        /\ Len(extract_responses) = Len(urls)
        /\ Len(extracted_data) = Cardinality(done)
        /\ \A i \in done :
             extracted_data[Cardinality({j \in done : j <= i})].website_url = urls[i]

\* C2 witness: of two different URLs the first is still "processing" and
\* the second completed; the result is the second alone.
C2_Witness ==
    /\ Returned("extract_user_info_from_urls")
    /\ Len(urls) = 2
    /\ urls[1] # urls[2]
    /\ extract_responses[1].kind = "answer"
    /\ extract_responses[1].body = [success |-> TRUE, status |-> "processing"]
    /\ Completed(extract_responses[2])
    /\ Len(extracted_data) = 1
    /\ extracted_data[1].website_url = urls[2]

\* C3: the URLs search_for_urls returns are at most num_links many and are
\* the collaborator's, in its order.
C3_AtMostLimitUrls ==
    Returned("search_for_urls") =>
        /\ Len(urls) <= num_links
        /\ urls # <<>> => \A i \in 1..Len(urls) : urls[i] = Discovered[i]

\* C4: on a failed search (the request raises, the status is not 200, the
\* success flag is false or absent, the body is not JSON or a result has no
\* url) search_for_urls returns the empty list and does not raise.
FailedSearch(response) ==
    \/ response.kind = "transport_error"
    \/ /\ response.kind = "http"
       /\ \/ response.status_code # 200
          \/ "json" \notin DOMAIN response
          \/ "success" \notin DOMAIN response.json
          \/ ~response.json.success
          \/ /\ "data" \in DOMAIN response.json
             /\ \E i \in 1..Len(response.json.data) :
                  "url" \notin DOMAIN response.json.data[i]

C4_FailedSearchIsEmpty ==
    (Called("search_for_urls") /\ FailedSearch(search_response)) =>
        /\ exc.in # "search_for_urls"
        /\ urls = <<>>

\* C5: a failure of the file sink (save_to_csv raising, or its file not
\* opening for the download) does not end the run before
\* write_to_google_sheets is tried, and a failure of write_to_google_sheets
\* (setting up its collaborator included) does not end the run either.
C5_SinksAreIndependent ==
    /\ csv_io \in {"to_csv_error", "open_error"} => pc # "raised"
    /\ sheets_io.kind \in {"setup_error", "run_error"} =>
         /\ pc # "raised"
         /\ csv_filename = "quora_leads.csv"

\* C6: the Upvotes of every row format_user_info_to_flattened_json returns
\* is an integer that is not negative.
C6_UpvotesNonNegativeInteger ==
    Returned("format_user_info_to_flattened_json") =>
        \A k \in 1..Len(flattened_data) :
            /\ flattened_data[k].Upvotes.t = "int"
            /\ flattened_data[k].Upvotes.v >= 0

RECURSIVE SumOver(_, _)
SumOver(f, n) == IF n = 0 THEN 0 ELSE f[n] + SumOver(f, n - 1)

\* C7: format_user_info_to_flattened_json returns as many rows as its
\* input holds interactions, in total and for each URL; a source without
\* interactions and a URL the extractor skipped have no row.
C7_OneRowPerInteraction ==
    Returned("format_user_info_to_flattened_json") =>
        LET size == [k \in 1..Len(extracted_data) |->
                        IF extracted_data[k].user_info.t = "list"
                        THEN Len(extracted_data[k].user_info.v)
                        ELSE Len(Chars(extracted_data[k].user_info.v))]
            of(u) == [k \in 1..Len(extracted_data) |->
                        IF extracted_data[k].website_url = u THEN size[k] ELSE 0]
            rows(u) == {r \in 1..Len(flattened_data) : flattened_data[r].Website_URL = u}
        IN  /\ Len(flattened_data) = SumOver(size, Len(extracted_data))
            /\ \A u \in URLS :
                 Cardinality(rows(u)) = SumOver(of(u), Len(extracted_data))
            /\ \A i \in 1..Len(urls) :
                 (\A j \in 1..Len(urls) :
                     urls[j] = urls[i] => ~Completed(extract_responses[j]))
                 => rows(urls[i]) = {}

\* C7 witness: one source with two interactions, another with none and a
\* skipped URL give two rows, both of the first source.
C7_Witness ==
    /\ Returned("format_user_info_to_flattened_json")
    /\ Len(extracted_data) = 2
    /\ extracted_data[1].user_info.t = "list"
    /\ Len(extracted_data[1].user_info.v) = 2
    /\ extracted_data[2].user_info = List(<<>>)
    /\ extracted_data[1].website_url # extracted_data[2].website_url
    /\ Len(flattened_data) = 2
    /\ \A r \in 1..2 : flattened_data[r].Website_URL = extracted_data[1].website_url

\* C8: after search, extraction and flattening, the rows are those of the
\* discovered URLs in the Discoverer's order, and within one URL those of
\* its answer's interactions in the answer's order: the rows of the i-th
\* URL follow the rows of all earlier URLs, and its j-th row is that of its
\* j-th interaction.
C8_RowOrderIsStable ==
    Returned("format_user_info_to_flattened_json") =>
        LET given(i) == extract_responses[i].body.data.interactions.v
            count == [i \in 1..Len(urls) |->
                        IF Completed(extract_responses[i]) THEN Len(given(i)) ELSE 0]
            before(i) == SumOver(count, i - 1)
        IN  /\ urls = Discovered
            /\ Len(flattened_data) = SumOver(count, Len(urls))
            /\ \A i \in 1..Len(urls) : \A j \in 1..count[i] :
                 /\ flattened_data[before(i) + j].Website_URL = Discovered[i]
                 /\ flattened_data[before(i) + j].Username = given(i)[j].username

\* C8 witness: two different URLs, the first with two interactions and the
\* second with one, give three rows in that order.
C8_Witness ==
    /\ pc = "done"
    /\ Len(urls) = 2
    /\ urls[1] # urls[2]
    /\ Len(flattened_data) = 3
    /\ flattened_data[1].Website_URL = urls[1]
    /\ flattened_data[2].Website_URL = urls[1]
    /\ flattened_data[3].Website_URL = urls[2]
    /\ flattened_data[1].Username = Str("ann")
    /\ flattened_data[2].Username = Str("bob")

Downstream == {"extract_user_info_from_urls", "format_user_info_to_flattened_json",
               "save_to_csv", "write_to_google_sheets"}

\* C9: when a key or the description is missing no stage is called, and
\* when the search returns no URL no stage after it is called; the run then
\* ends with no rows, showing "No relevant Quora links found." in the
\* second case.
C9_NoStageAfterEmptyDiscovery ==
    /\ ("" \in {firecrawl_api_key, openai_api_key, composio_api_key, user_query}) =>
         /\ calls = <<>>
         /\ flattened_data = <<>>
         /\ pc \in {"form", "done"}
         /\ pc = "done" => ui = <<MsgMissingInput>>
    /\ (Returned("search_for_urls") /\ urls = <<>>) =>
         /\ \A i \in 1..Len(calls) : calls[i] \notin Downstream
         /\ flattened_data = <<>>
         /\ csv_filename = ""
         /\ pc = "done"
         /\ ui = <<MsgNoLinks>>

\* C9 witness: the search answered with status 500 and the run is over
\* with "No relevant Quora links found."
C9_Witness ==
    /\ pc = "done"
    /\ search_response.kind = "http"
    /\ search_response.status_code = 500
    /\ calls = <<"search_for_urls">>
    /\ ui = <<MsgNoLinks>>

\* The agent's answer holds the spreadsheet marker
MarkerInAnswer ==
    /\ sheets_io.kind = "answer"
    /\ sheets_io.content.t = "str"
    /\ \E i \in 1..Len(sheets_io.content.v) : sheets_io.content.v[i] = SheetsMarker

\* C10: write_to_google_sheets returns a link only when the agent's answer
\* holds the spreadsheet marker; when the run raises or the marker is
\* missing it returns None without raising, and main() shows the failure
\* after, and next to, "Data saved successfully!".
C10_LinkOnlyWithMarker ==
    /\ google_sheets_link # None => MarkerInAnswer
    /\ (sheets_io.kind \in {"run_error", "answer"} /\ ~MarkerInAnswer) =>
         /\ exc = NoExc
         /\ pc = "done"
         /\ google_sheets_link = None
         /\ csv_filename = "quora_leads.csv"
         /\ ui = <<MsgSaved, MsgSheetFailed>>

\* C10 witness: the agent answered with a link to a document, not to a
\* spreadsheet; the failure is shown after the file was reported saved.
C10_Witness ==
    /\ pc = "done"
    /\ sheets_io.kind = "answer"
    /\ sheets_io.content = Text(<<"https://docs.google.com/document/d/", "abc">>)
    /\ google_sheets_link = None
    /\ ui = <<MsgSaved, MsgSheetFailed>>

====
